---------------------------- MODULE Spec2Model ----------------------------
(***************************************************************************)
(* Remote version detection of checksysvers (RemoteSysVersChecker):        *)
(* the dispatch of remote_check_version, the auto-detection loop, the      *)
(* paramiko command chains, the netmiko single-command check and the       *)
(* subprocess ssh chain.  Text is modelled as sequences of one-character   *)
(* strings so that strip(), lower() and the substring tests are computed.  *)
(***************************************************************************)
EXTENDS Naturals, Sequences, FiniteSets

(* ------------------------------ bounds --------------------------------- *)

\* Number of remote_check_version calls made on one checker in a behaviour.
MaxCalls == 2

(* ------------------------------- text ---------------------------------- *)

UpperAlpha ==
    << "A", "B", "C", "D", "E", "F", "G", "H", "I", "J", "K", "L", "M",
       "N", "O", "P", "Q", "R", "S", "T", "U", "V", "W", "X", "Y", "Z" >>

LowerAlpha ==
    << "a", "b", "c", "d", "e", "f", "g", "h", "i", "j", "k", "l", "m",
       "n", "o", "p", "q", "r", "s", "t", "u", "v", "w", "x", "y", "z" >>

\* str.lower() on one character.
LowerChar(c) ==
    IF \E i \in 1..Len(UpperAlpha) : UpperAlpha[i] = c
    THEN LowerAlpha[CHOOSE i \in 1..Len(UpperAlpha) : UpperAlpha[i] = c]
    ELSE c

\* str.lower()
Lower(s) == [i \in 1..Len(s) |-> LowerChar(s[i])]

IsSpace(c) == c \in {" ", "\n", "\t", "\r"}

RECURSIVE LStrip(_)
LStrip(s) ==
    IF s = << >> THEN << >>
    ELSE IF IsSpace(Head(s)) THEN LStrip(Tail(s)) ELSE s

RECURSIVE RStrip(_)
RStrip(s) ==
    IF s = << >> THEN << >>
    ELSE IF IsSpace(s[Len(s)]) THEN RStrip(SubSeq(s, 1, Len(s) - 1)) ELSE s

\* str.strip()
Strip(s) == RStrip(LStrip(s))

\* needle in hay
Contains(hay, needle) ==
    \E i \in 1..(Len(hay) + 1) :
        /\ i + Len(needle) - 1 <= Len(hay)
        /\ SubSeq(hay, i, i + Len(needle) - 1) = needle

\* Truth value of a Python str: the empty string is false.
Truthy(s) == s # << >>

TxtEmpty ==
    << >>

TxtBlank ==
    << " ", " ", "\n" >>

TxtCommandNotFound ==
    << "C", "o", "m", "m", "a", "n", "d", " ", "n", "o", "t", " ", "f", "o", "u", "n", "d" >>

TxtShellNotFound ==
    << "-", "s", "h", ":", " ", "C", "O", "M", "M", "A", "N", "D", " ", "N", "O", "T", " ", "F", "O", "U", "N", "D", "\n" >>

TxtJunos ==
    << "J", "U", "N", "O", "S", " ", "S", "o", "f", "t", "w", "a", "r", "e", " ", "R", "e", "l", "e", "a", "s", "e", " ", "[", "2", "0", ".", "4", "R", "3", "]" >>

TxtLicenseNotFound ==
    << " ", "L", "i", "c", "e", "n", "s", "e", " ", "n", "o", "t", " ", "f", "o", "u", "n", "d", "\n" >>

TxtCiscoIos ==
    << "\n", "C", "i", "s", "c", "o", " ", "I", "O", "S", " ", "1", "5", ".", "2", "\n" >>

NeedleNotFound ==
    << "n", "o", "t", " ", "f", "o", "u", "n", "d" >>

NeedleCommandNotFound ==
    << "c", "o", "m", "m", "a", "n", "d", " ", "n", "o", "t", " ", "f", "o", "u", "n", "d" >>

\* The raw texts a host answers a command with.
Outputs ==
    { TxtEmpty, TxtBlank, TxtCommandNotFound, TxtShellNotFound, TxtJunos,
      TxtLicenseNotFound, TxtCiscoIos }

(* --------------------------- device types ------------------------------ *)

Dt_auto == << "a", "u", "t", "o" >>
Dt_juniper == << "j", "u", "n", "i", "p", "e", "r" >>
Dt_Cisco == << "C", "i", "s", "c", "o" >>
Dt_cisco == << "c", "i", "s", "c", "o" >>
Dt_linux == << "l", "i", "n", "u", "x" >>
Dt_ubiquiti == << "u", "b", "i", "q", "u", "i", "t", "i" >>
Dt_windows == << "w", "i", "n", "d", "o", "w", "s" >>
Dt_macos == << "m", "a", "c", "o", "s" >>
Dt_hp == << "h", "p" >>

\* The device_type arguments a caller passes (--device-type is free text;
\* ubiquiti, windows and macos take the same route as linux).
DeviceTypes == { Dt_auto, Dt_juniper, Dt_Cisco, Dt_linux, Dt_hp }


(* ------------------------------- state --------------------------------- *)

VARIABLES
    NETMIKO_AVAILABLE,   \* module flag set by the netmiko import
    PARAMIKO_AVAILABLE,  \* module flag set by the paramiko import
    password,            \* self.password: "None" or the secret
    username,            \* self.username
    port,                \* self.port
    device,              \* self.device
    pc,                  \* position of the running remote_check_version call
    path,                \* the transport path the call was dispatched to
    device_type,         \* the device_type argument of the running call
    commands,            \* the candidate command list of the running chain
    idx,                 \* loop index: family (auto) or candidate command
    ops,                 \* the operations of the running call, in order
    connOpen,            \* connections to the host currently open
    last_error,          \* last_error of _remote_check_with_subprocess
    output,              \* output of the paramiko chains (None until accepted)
    result,              \* the value returned by the call
    exit,                \* which return statement ended the call
    calls,               \* calls started so far
    hint,                \* the hint logged by the running call ("none": no hint)
    prev,                \* the caller's record of the call before the running one
    system,              \* LocalSysVersChecker.system ("none": no local checker)
    os_release,          \* the lines of /etc/os-release, or NoFile
    infrahub_token,      \* recover_device_list: whether a token is set
    httpx,               \* whether the httpx import succeeded
    InfrahubClientSync,  \* whether the infrahub_sdk import succeeded
    requests,            \* the inventory requests of the running call, in order
    devices,             \* the value recover_device_list returns
    args,                \* the parsed command line of main
    stage,               \* position of main
    status,              \* exit status of main ("none": not ended)
    printed              \* what main has printed, in order

vars ==
    << NETMIKO_AVAILABLE, PARAMIKO_AVAILABLE, password, pc, path,
       device_type, commands, idx, ops, connOpen, last_error, output, result,
       exit, calls, hint, prev, username, port, device, system, os_release,
       infrahub_token, httpx, InfrahubClientSync, requests, devices,
       args, stage, status, printed >>

config == << NETMIKO_AVAILABLE, PARAMIKO_AVAILABLE, password, username, port, device >>

\* The local checker and the platform sources it reads.
local == << system, os_release >>

\* The running recover_device_list call.
inventory == << infrahub_token, httpx, InfrahubClientSync, requests, devices >>

\* The running main.
cli == << args, stage, status, printed >>

\* Python None as a return value, and a returned str.
None == [isNone |-> TRUE, text |-> << >>]

Str(t) == [isNone |-> FALSE, text |-> t]

\* One operation against the host: a connect or a command, what it was
\* aimed at (family or command), how it ended, the raw text it produced
\* and whether the caller's test accepted that text.
Op(op, unit, kind, out, accepted) ==
    [op |-> op, unit |-> unit, kind |-> kind, out |-> out, accepted |-> accepted]

NoError == [kind |-> "None", command |-> ""]

PasswordSet == password # "None"

\* open('/etc/os-release') fails.
NoFile == [exists |-> FALSE, lines |-> << >>]

\* recover_device_list has returned nothing yet.
NoDevices == [isList |-> FALSE, items |-> << >>]

\* No command line has been parsed.
NoArgs == [local |-> FALSE, remote |-> FALSE, list_devices |-> FALSE,
           device_type |-> << >>, prompt_credentials |-> FALSE]

\* No call has returned yet.
NoCall == [device_type |-> << >>, ops |-> << >>, result |-> None, exit |-> "none"]

(* ------------------------- static configuration ------------------------ *)

\* device_types_to_try (the netmiko device types, in order)
device_types_to_try == << "cisco_ios", "juniper", "cisco_xe", "cisco_nxos" >>

\* commands_to_try of the two paramiko chains
ParamikoCommands(family) ==
    IF family = "cisco"
    THEN << "show version", "/usr/bin/cli \"show version\"", "vtysh -c \"show version\"" >>
    ELSE << "show version", "cli -c \"show version\"" >>

\* The if/elif ladder of _remote_check_with_subprocess; << >> stands for the
\* else branch (unsupported device type, return None).
SubprocessCommands(dt) ==
    LET t == Lower(dt) IN
    IF t = Dt_cisco
    THEN << "show version", "/usr/bin/cli \"show version\"", "vtysh -c \"show version\"" >>
    ELSE IF t = Dt_juniper
    THEN << "show version", "cli -c \"show version\"", "cli show version" >>
    ELSE IF t = Dt_ubiquiti THEN << "cat /etc/version" >>
    ELSE IF t = Dt_linux THEN << "cat /etc/os-release | grep PRETTY_NAME" >>
    ELSE IF t = Dt_windows
    THEN << "systeminfo | findstr /B /C:\"OS Name\" /C:\"OS Version\"" >>
    ELSE IF t = Dt_macos THEN << "sw_vers" >>
    ELSE << >>

\* netmiko_device_types.get(device_type.lower(), 'cisco_ios')
NetmikoDeviceType(dt) ==
    IF Lower(dt) = Dt_juniper THEN "juniper_junos" ELSE "cisco_ios"

(* ----------------------------- the host -------------------------------- *)

\* ConnectHandler(**connection_params): connected, or one of the exceptions
\* NetmikoAuthenticationException, NetmikoTimeoutException, other Exception.
NetmikoConnectOutcomes == {"ok", "auth", "timeout", "error"}

\* net_connect.send_command: a text, or an exception while reading.
NetmikoSendFailures == {"timeout", "error"}

\* Exceptions of send_command whose message contains 'Pattern not detected'
\* or 'not recognized': the device does not answer like the declared family.
NetmikoPromptFailures == {"pattern_not_detected"}

\* ssh.connect: connected, paramiko.AuthenticationException,
\* paramiko.SSHException, or any other exception (socket timeout, refused).
ParamikoConnectOutcomes == {"ok", "auth", "ssh_error", "error"}

\* ssh.exec_command / stdout.read: a text, or an exception.
ParamikoExecFailures == {"timeout", "error"}

\* subprocess.check_output raising CalledProcessError: ssh or sshpass exits
\* non-zero because the login was refused, the connection timed out, or the
\* remote command failed.
CalledProcessErrorKinds == {"auth", "timeout", "exit_nonzero"}

\* Any other exception of the try body: bytes.decode() of output that is
\* not valid UTF-8 raises UnicodeDecodeError.
SubprocessOtherFailures == {"decode_error"}


(* --------------------------- the decisions ----------------------------- *)

\* Dispatch on a checker that gives up paramiko once a login was refused.
Dispatch_RemembersFailure(dt) ==
    LET t == Lower(dt)
        paramiko == PARAMIKO_AVAILABLE /\ ~(pc = "done" /\ exit = "auth") IN
    IF t = Dt_auto
    THEN IF NETMIKO_AVAILABLE /\ PasswordSet THEN "auto" ELSE "none"
    ELSE IF t = Dt_juniper /\ paramiko /\ PasswordSet THEN "paramiko_juniper"
    ELSE IF t = Dt_cisco /\ paramiko /\ PasswordSet THEN "paramiko_cisco"
    ELSE IF NETMIKO_AVAILABLE /\ PasswordSet THEN "netmiko"
    ELSE "subprocess"

\* Dispatch without the NETMIKO_AVAILABLE / password test of the auto branch.
Dispatch_AutoUnguarded(dt) ==
    LET t == Lower(dt) IN
    IF t = Dt_auto THEN "auto"
    ELSE IF t = Dt_juniper /\ PARAMIKO_AVAILABLE /\ PasswordSet THEN "paramiko_juniper"
    ELSE IF t = Dt_cisco /\ PARAMIKO_AVAILABLE /\ PasswordSet THEN "paramiko_cisco"
    ELSE IF NETMIKO_AVAILABLE /\ PasswordSet THEN "netmiko"
    ELSE "subprocess"

\* remote_check_version: which path handles the call.
Dispatch(dt) ==
    LET t == Lower(dt) IN
    IF t = Dt_auto
    THEN IF NETMIKO_AVAILABLE /\ PasswordSet THEN "auto" ELSE "none"
    ELSE IF t = Dt_juniper /\ PARAMIKO_AVAILABLE /\ PasswordSet THEN "paramiko_juniper"
    ELSE IF t = Dt_cisco /\ PARAMIKO_AVAILABLE /\ PasswordSet THEN "paramiko_cisco"
    ELSE IF NETMIKO_AVAILABLE /\ PasswordSet THEN "netmiko"
    ELSE "subprocess"

\* NetmikoAccepts without the test of output.strip().
NetmikoAccepts_Unstripped(out) == Truthy(out)

\* `if output and output.strip()` of the two netmiko paths.
NetmikoAccepts(out) == Truthy(out) /\ Truthy(Strip(out))

\* `if cmd_output and cmd_output.strip() and 'not found' not in cmd_output.lower()`
ParamikoAccepts(out) ==
    Truthy(out) /\ Truthy(Strip(out)) /\ ~Contains(Lower(out), NeedleNotFound)

\* SubprocessAccepts with the lower() of the substring test forgotten.
SubprocessAccepts_CaseSensitive(out) ==
    Truthy(Strip(out)) /\ ~Contains(out, NeedleCommandNotFound)

\* `if output.strip() and 'command not found' not in output.lower()`
SubprocessAccepts(out) ==
    Truthy(Strip(out)) /\ ~Contains(Lower(out), NeedleCommandNotFound)

\* AutoStep with the `return output.strip()` forgotten: the loop goes on
\* after an accepted output.
AutoStep_NoReturn(kind, out) ==
    IF kind = "auth" THEN "return_none" ELSE "continue"

\* AutoStep with the NetmikoAuthenticationException clause forgotten: every
\* exception is handled by `except Exception: continue`.
AutoStep_AuthSoft(kind, out) ==
    IF kind = "output" /\ NetmikoAccepts(out) THEN "return_output" ELSE "continue"

\* AutoStep with NetmikoTimeoutException handled like the authentication
\* failure (return None).
AutoStep_TimeoutFatal(kind, out) ==
    IF kind = "output"
    THEN IF NetmikoAccepts(out) THEN "return_output" ELSE "continue"
    ELSE IF kind \in {"auth", "timeout"} THEN "return_none"
    ELSE "continue"

\* One iteration of the auto-detection loop, after the attempt ended with
\* `kind` (and text `out` when kind = "output"): return the text, return
\* None, or go on with the next device type.
AutoStep(kind, out) ==
    IF kind = "output"
    THEN IF NetmikoAccepts(out) THEN "return_output" ELSE "continue"
    ELSE IF kind = "auth" THEN "return_none"
    ELSE "continue"

\* ParamikoStep with the `break` forgotten.
ParamikoStep_NoBreak(kind, out) == "continue"

\* One iteration of a paramiko command loop: break on accepted output,
\* otherwise (rejected output, or any exception) go on.
ParamikoStep(kind, out) ==
    IF kind = "output" /\ ParamikoAccepts(out) THEN "break" ELSE "continue"

\* One iteration of the subprocess command loop: return accepted output; go
\* on after rejected output or CalledProcessError; any other exception
\* leaves the loop for the outer handler.
SubprocessStep(kind, out) ==
    IF kind = "output"
    THEN IF SubprocessAccepts(out) THEN "return_output" ELSE "continue"
    ELSE IF kind \in CalledProcessErrorKinds THEN "continue"
    ELSE "abort"

\* ExceptClause with the catch-all `except Exception` clauses missing.
ExceptClause_NoCatchAll(p, kind) ==
    IF p \in {"auto", "netmiko"} /\ kind = "auth" THEN "NetmikoAuthenticationException"
    ELSE IF p = "netmiko" /\ kind = "timeout" THEN "NetmikoTimeoutException"
    ELSE IF p = "paramiko" /\ kind = "auth" THEN "AuthenticationException"
    ELSE IF p = "paramiko" /\ kind = "ssh_error" THEN "SSHException"
    ELSE IF p = "subprocess" /\ kind \in CalledProcessErrorKinds THEN "CalledProcessError"
    ELSE "none"

\* The except clause that handles an exception of `kind` raised on path p
\* ("none": no clause matches and the exception leaves
\* remote_check_version).
ExceptClause(p, kind) ==
    IF p \in {"auto", "netmiko"} /\ kind = "auth" THEN "NetmikoAuthenticationException"
    ELSE IF p = "netmiko" /\ kind = "timeout" THEN "NetmikoTimeoutException"
    ELSE IF p = "paramiko" /\ kind = "auth" THEN "AuthenticationException"
    ELSE IF p = "paramiko" /\ kind = "ssh_error" THEN "SSHException"
    ELSE IF p = "subprocess" /\ kind \in CalledProcessErrorKinds THEN "CalledProcessError"
    ELSE "Exception"

\* LastErrorAfter that keeps the first failure of the chain.
LastErrorAfter_KeepFirst(before, kind, out, command) ==
    IF before.kind # "None" THEN before
    ELSE IF kind \in CalledProcessErrorKinds
    THEN [kind |-> "CalledProcessError", command |-> command]
    ELSE IF kind = "output" /\ ~SubprocessAccepts(out)
    THEN [kind |-> "invalid_output", command |-> command]
    ELSE before

\* last_error of the subprocess chain after one candidate: every rejected
\* output and every CalledProcessError overwrites it.
LastErrorAfter(before, kind, out, command) ==
    IF kind \in CalledProcessErrorKinds
    THEN [kind |-> "CalledProcessError", command |-> command]
    ELSE IF kind = "output" /\ ~SubprocessAccepts(out)
    THEN [kind |-> "invalid_output", command |-> command]
    ELSE before

\* Whether the I/O calls of path p are given a timeout: netmiko and paramiko
\* calls are, subprocess.check_output is not.
HasTimeout(p) == p # "subprocess"

\* The hint the generic except clause of _remote_check_with_netmiko logs for
\* device type dt when the error message names an unrecognized device.
HintFor(dt) ==
    IF Lower(dt) = Dt_cisco THEN "try_juniper_or_auto"
    ELSE IF Lower(dt) = Dt_juniper THEN "try_cisco_or_auto"
    ELSE "try_auto"

(* ------------------------------ actions -------------------------------- *)

\* An exception of `kind` that no except clause of the running path handles.
Uncaught(kind) == ExceptClause(path, kind) = "none"

\* The exception leaves remote_check_version: the call ends without a
\* return value.
Raise ==
    /\ pc' = "raised"
    /\ UNCHANGED << result, exit >>

Return(val, how) ==
    /\ pc' = "done"
    /\ result' = val
    /\ exit' = how

\* A call that has started and not returned has no return value yet.
Running ==
    /\ result' = None
    /\ exit' = "none"

\* RemoteSysVersChecker.__init__ and the module flags.
Construct ==
    /\ NETMIKO_AVAILABLE \in BOOLEAN
    /\ PARAMIKO_AVAILABLE \in BOOLEAN
    /\ password \in {"None", "secret"}
    /\ username = "admin"
    /\ port = 22
    /\ device = "None"

\* No remote_check_version call has started.
EngineIdle ==
    /\ pc = "idle"
    /\ path = "none"
    /\ device_type = << >>
    /\ commands = << >>
    /\ idx = 1
    /\ ops = << >>
    /\ connOpen = 0
    /\ last_error = NoError
    /\ output = None
    /\ result = None
    /\ exit = "none"
    /\ calls = 0
    /\ hint = "none"
    /\ prev = NoCall

\* No LocalSysVersChecker has been constructed.
NoLocalChecker ==
    /\ system = "none"
    /\ os_release = NoFile

\* No recover_device_list call has started.
NoInventoryCall ==
    /\ infrahub_token = FALSE
    /\ httpx = FALSE
    /\ InfrahubClientSync = FALSE
    /\ requests = << >>
    /\ devices = NoDevices

\* main is not running: the checker is used as a library.
NoCommandLine ==
    /\ args = NoArgs
    /\ stage = "none"
    /\ status = "none"
    /\ printed = << >>

Init ==
    /\ Construct
    /\ EngineIdle
    /\ NoLocalChecker
    /\ NoInventoryCall
    /\ NoCommandLine

\* remote_check_version(device, device_type), up to the first operation
\* against the host.
remote_check_version(dt) ==
    /\ pc \in {"idle", "done", "listed"}
    /\ calls < MaxCalls
    /\ calls' = calls + 1
    /\ device_type' = dt
    /\ idx' = 1
    /\ ops' = << >>
    /\ last_error' = NoError
    /\ output' = None
    /\ hint' = "none"
    /\ LET d == Dispatch(dt) IN
       CASE d = "none" ->
              /\ path' = "none"
              /\ commands' = << >>
              /\ Return(None, "auto_unavailable")
         [] d = "auto" ->
              /\ path' = "auto"
              /\ commands' = << "show version" >>
              /\ pc' = "auto_connect"
              /\ Running
         [] d = "paramiko_juniper" ->
              /\ path' = "paramiko"
              /\ commands' = ParamikoCommands("juniper")
              /\ pc' = "paramiko_connect"
              /\ Running
         [] d = "paramiko_cisco" ->
              /\ path' = "paramiko"
              /\ commands' = ParamikoCommands("cisco")
              /\ pc' = "paramiko_connect"
              /\ Running
         [] d = "netmiko" ->
              /\ path' = "netmiko"
              /\ commands' = << "show version" >>
              /\ pc' = "netmiko_connect"
              /\ Running
         [] d = "subprocess" ->
              /\ path' = "subprocess"
              /\ commands' = SubprocessCommands(dt)
              /\ IF SubprocessCommands(dt) = << >>
                 THEN Return(None, "unsupported")
                 ELSE pc' = "subprocess_run" /\ Running
    /\ UNCHANGED << local, cli, config, connOpen >>

\* AutoAdvance skipping a device type of the list.
AutoAdvance_Skip ==
    IF idx + 1 < Len(device_types_to_try)
    THEN /\ idx' = idx + 2
         /\ pc' = "auto_connect"
         /\ UNCHANGED << result, exit >>
    ELSE /\ idx' = idx
         /\ Return(None, "exhausted")

\* Leave the current iteration of the auto-detection loop without a return:
\* next device type, or the `return None` after the loop.
AutoAdvance ==
    IF idx < Len(device_types_to_try)
    THEN /\ idx' = idx + 1
         /\ pc' = "auto_connect"
         /\ UNCHANGED << result, exit >>
    ELSE /\ idx' = idx
         /\ Return(None, "exhausted")

\* _try_auto_detect_device_type: ConnectHandler(**connection_params)
auto_connect ==
    /\ pc = "auto_connect"
    /\ \E o \in NetmikoConnectOutcomes :
         /\ ops' = Append(ops, Op("connect", device_types_to_try[idx], o, << >>, FALSE))
         /\ IF o = "ok"
            THEN /\ pc' = "auto_send"
                 /\ connOpen' = connOpen + 1
                 /\ UNCHANGED << idx, result, exit >>
            ELSE /\ connOpen' = connOpen
                 /\ IF Uncaught(o)
                    THEN idx' = idx /\ Raise
                    ELSE IF AutoStep(o, << >>) = "return_none"
                    THEN idx' = idx /\ Return(None, "auth")
                    ELSE AutoAdvance
    /\ UNCHANGED << prev, hint, local, inventory, cli, config, path, device_type, commands, last_error, output, calls >>

\* _try_auto_detect_device_type: send_command inside the with block; the
\* with block disconnects on every way out.
auto_send ==
    /\ pc = "auto_send"
    /\ connOpen' = connOpen - 1
    /\ \/ \E out \in Outputs :
            /\ ops' = Append(ops, Op("command", device_types_to_try[idx], "output",
                                     out, NetmikoAccepts(out)))
            /\ IF AutoStep("output", out) = "return_output"
               THEN idx' = idx /\ Return(Str(Strip(out)), "success")
               ELSE AutoAdvance
       \/ \E k \in NetmikoSendFailures :
            /\ ops' = Append(ops, Op("command", device_types_to_try[idx], k, << >>, FALSE))
            /\ IF Uncaught(k)
               THEN idx' = idx /\ Raise
               ELSE IF AutoStep(k, << >>) = "return_none"
               THEN idx' = idx /\ Return(None, "auth")
               ELSE AutoAdvance
    /\ UNCHANGED << prev, hint, local, inventory, cli, config, path, device_type, commands, last_error, output, calls >>

\* paramiko_connect that hands the call to the netmiko path when the
\* connection fails.
paramiko_connect_FallsBack ==
    /\ pc = "paramiko_connect"
    /\ \E o \in ParamikoConnectOutcomes :
         /\ ops' = Append(ops, Op("connect", "paramiko", o, << >>, FALSE))
         /\ CASE o = "ok" ->
                   /\ pc' = "paramiko_exec"
                   /\ connOpen' = connOpen + 1
                   /\ UNCHANGED << result, exit >>
              [] o = "auth" ->
                   /\ connOpen' = connOpen + 1
                   /\ Return(None, "auth")
              [] OTHER ->
                   /\ connOpen' = connOpen
                   /\ pc' = "netmiko_connect"
                   /\ UNCHANGED << result, exit >>
    /\ UNCHANGED << prev, hint, local, inventory, cli, config, path, device_type, commands, idx, last_error, output, calls >>

\* _remote_check_{juniper,cisco}_with_paramiko: SSHClient() and ssh.connect.
\* Authentication runs over an established transport, so when it is refused
\* the exception leaves ssh.connect with the transport still up; the
\* handlers of the outer try return None and never reach ssh.close().
paramiko_connect ==
    /\ pc = "paramiko_connect"
    /\ \E o \in ParamikoConnectOutcomes :
         /\ ops' = Append(ops, Op("connect", "paramiko", o, << >>, FALSE))
         /\ CASE o = "ok" ->
                   /\ pc' = "paramiko_exec"
                   /\ connOpen' = connOpen + 1
                   /\ UNCHANGED << result, exit >>
              [] o = "auth" ->
                   /\ connOpen' = connOpen + 1
                   /\ IF Uncaught(o) THEN Raise ELSE Return(None, "auth")
              [] OTHER ->
                   /\ connOpen' = connOpen
                   /\ IF Uncaught(o) THEN Raise ELSE Return(None, o)
    /\ UNCHANGED << prev, hint, local, inventory, cli, config, path, device_type, commands, idx, last_error, output, calls >>

\* paramiko_exec_command that opens a new connection for every candidate
\* after the first.
paramiko_exec_command_Reconnect ==
    /\ pc = "paramiko_exec"
    /\ \E kind \in {"output"} \cup ParamikoExecFailures :
       \E out \in (IF kind = "output" THEN Outputs ELSE {<< >>}) :
         /\ ops' = (IF idx > 1
                    THEN Append(ops, Op("connect", "paramiko", "ok", << >>, FALSE))
                    ELSE ops)
                   \o << Op("command", commands[idx], kind, out,
                            kind = "output" /\ ParamikoAccepts(out)) >>
         /\ output' = IF kind = "output" /\ ParamikoAccepts(out)
                      THEN Str(Strip(out)) ELSE output
         /\ IF kind # "output" /\ Uncaught(kind)
            THEN pc' = "raised" /\ idx' = idx
            ELSE IF ParamikoStep(kind, out) = "break" \/ idx = Len(commands)
            THEN pc' = "paramiko_close" /\ idx' = idx
            ELSE pc' = "paramiko_exec" /\ idx' = idx + 1
    /\ UNCHANGED << prev, hint, local, inventory, cli, config, path, device_type, commands, connOpen, last_error,
                    result, exit, calls >>

\* One iteration of `for command in commands_to_try` of a paramiko chain:
\* exec_command, read, test.
paramiko_exec_command ==
    /\ pc = "paramiko_exec"
    /\ \E kind \in {"output"} \cup ParamikoExecFailures :
       \E out \in (IF kind = "output" THEN Outputs ELSE {<< >>}) :
         /\ ops' = Append(ops, Op("command", commands[idx], kind, out,
                                  kind = "output" /\ ParamikoAccepts(out)))
         /\ output' = IF kind = "output" /\ ParamikoAccepts(out)
                      THEN Str(Strip(out)) ELSE output
         /\ IF kind # "output" /\ Uncaught(kind)
            THEN pc' = "raised" /\ idx' = idx
            ELSE IF ParamikoStep(kind, out) = "break" \/ idx = Len(commands)
            THEN pc' = "paramiko_close" /\ idx' = idx
            ELSE pc' = "paramiko_exec" /\ idx' = idx + 1
    /\ UNCHANGED << prev, hint, local, inventory, cli, config, path, device_type, commands, connOpen, last_error,
                    result, exit, calls >>

\* After the loop: ssh.close(), then `if output: return output` else None.
paramiko_close ==
    /\ pc = "paramiko_close"
    /\ connOpen' = connOpen - 1
    /\ IF ~output.isNone /\ Truthy(output.text)
       THEN Return(output, "success")
       ELSE Return(None, "all_failed")
    /\ UNCHANGED << prev, hint, local, inventory, cli, config, path, device_type, commands, idx, ops, last_error,
                    output, calls >>

\* _remote_check_with_netmiko: ConnectHandler(**connection_params) and the
\* three except clauses.
netmiko_connect ==
    /\ pc = "netmiko_connect"
    /\ \E o \in NetmikoConnectOutcomes :
         /\ ops' = Append(ops, Op("connect", NetmikoDeviceType(device_type), o, << >>, FALSE))
         /\ IF o = "ok"
            THEN /\ pc' = "netmiko_send"
                 /\ connOpen' = connOpen + 1
                 /\ UNCHANGED << result, exit >>
            ELSE /\ connOpen' = connOpen
                 /\ IF Uncaught(o) THEN Raise ELSE Return(None, o)
    /\ UNCHANGED << prev, hint, local, inventory, cli, config, path, device_type, commands, idx, last_error, output, calls >>

\* _remote_check_with_netmiko: send_command('show version') inside the with
\* block, which disconnects on every way out.
netmiko_send_command ==
    /\ pc = "netmiko_send"
    /\ connOpen' = connOpen - 1
    /\ \/ \E out \in Outputs :
            /\ ops' = Append(ops, Op("command", commands[idx], "output", out,
                                     NetmikoAccepts(out)))
            /\ IF NetmikoAccepts(out)
               THEN Return(Str(Strip(out)), "success")
               ELSE Return(None, "no_output")
       \/ \E k \in NetmikoSendFailures \cup NetmikoPromptFailures :
            /\ ops' = Append(ops, Op("command", commands[idx], k, << >>, FALSE))
            /\ IF Uncaught(k)
               THEN Raise
               ELSE Return(None, IF k \in NetmikoPromptFailures THEN "error" ELSE k)
    /\ hint' = IF ops'[Len(ops')].kind \in NetmikoPromptFailures
               THEN HintFor(device_type)
               ELSE hint
    /\ UNCHANGED << prev, local, inventory, cli, config, path, device_type, commands, idx,
                    last_error, output, calls >>

\* One iteration of `for command in commands` of
\* _remote_check_with_subprocess: one ssh process run to completion,
\* decode, test.  After the last command: `return None`.
subprocess_check_output ==
    /\ pc = "subprocess_run"
    /\ \/ /\ ~HasTimeout(path)
          /\ pc' = "blocked"
          /\ UNCHANGED << idx, ops, last_error, result, exit >>
       \/ \E kind \in {"output"} \cup CalledProcessErrorKinds \cup SubprocessOtherFailures :
          \E out \in (IF kind = "output" THEN Outputs ELSE {<< >>}) :
            LET step == SubprocessStep(kind, out) IN
            /\ ops' = Append(ops, Op("command", commands[idx], kind, out,
                                     kind = "output" /\ SubprocessAccepts(out)))
            /\ last_error' = LastErrorAfter(last_error, kind, out, commands[idx])
            /\ CASE step = "return_output" ->
                      idx' = idx /\ Return(Str(Strip(out)), "success")
                 [] step = "abort" ->
                      /\ idx' = idx
                      /\ IF Uncaught(kind) THEN Raise ELSE Return(None, "exception")
                 [] OTHER ->
                      IF idx < Len(commands)
                      THEN /\ idx' = idx + 1
                           /\ pc' = "subprocess_run"
                           /\ UNCHANGED << result, exit >>
                      ELSE idx' = idx /\ Return(None, "all_failed")
    /\ UNCHANGED << prev, hint, local, inventory, cli, config, path, device_type, commands, connOpen, output, calls >>

Next ==
    \/ \E dt \in DeviceTypes : remote_check_version(dt) /\ UNCHANGED << prev, inventory >>
    \/ auto_connect
    \/ auto_send
    \/ paramiko_connect
    \/ paramiko_exec_command
    \/ paramiko_close
    \/ netmiko_connect
    \/ netmiko_send_command
    \/ subprocess_check_output

Spec == Init /\ [][Next]_vars


(* ------------------------ reading the operations ----------------------- *)

\* Position of a device type in device_types_to_try.
FamilyIndex(u) == CHOOSE k \in 1..Len(device_types_to_try) : device_types_to_try[k] = u

\* Connection attempts made by the running call for family k of the list.
Attempts(k) ==
    Cardinality({ i \in 1..Len(ops) :
                    ops[i].op = "connect" /\ ops[i].unit = device_types_to_try[k] })

\* Commands issued by the running call.
CommandOps == { i \in 1..Len(ops) : ops[i].op = "command" }

\* An operation that failed without being an authentication failure.
SoftFailure(o) ==
    \/ o.kind \notin {"ok", "auth", "output"}
    \/ o.kind = "output" /\ ~o.accepted

(* ------------------------------- claims -------------------------------- *)

\* C1: in auto-detection an accepted output ends the call at once: the call
\* returns that output trimmed, the accepting operation is the last one, and
\* no family after the accepting one is attempted; with the first family
\* timing out and the second accepted, the third has zero attempts.
C1_FirstSuccessShortCircuits ==
    path = "auto" =>
      /\ \A i \in 1..Len(ops) :
           ops[i].accepted =>
             /\ i = Len(ops)
             /\ pc = "done"
             /\ result = Str(Strip(ops[i].out))
             /\ \A k \in 1..Len(device_types_to_try) :
                  k > FamilyIndex(ops[i].unit) => Attempts(k) = 0
      /\ ( /\ Len(ops) >= 3
           /\ ops[1].kind = "timeout"
           /\ ops[3].accepted )
         => /\ ops[3].unit = device_types_to_try[2]
            /\ result = Str(Strip(ops[3].out))
            /\ Attempts(3) = 0

\* Family A timed out, family B answered a text that needed trimming, the
\* call returned.
C1_Witness ==
    /\ path = "auto"
    /\ pc = "done"
    /\ Len(ops) = 3
    /\ ops[1].kind = "timeout"
    /\ ops[3].accepted
    /\ ops[3].out = TxtCiscoIos
    /\ result.text # ops[3].out

\* C2: in auto-detection an authentication failure is terminal: it is the
\* last operation of the call, the call returns None, and no family after
\* the failing one is attempted, however many remain.
C2_AuthFailureAbortsAutoDetection ==
    path = "auto" =>
      \A i \in 1..Len(ops) :
        ops[i].kind = "auth" =>
          /\ i = Len(ops)
          /\ pc = "done"
          /\ result = None
          /\ \A k \in 1..Len(device_types_to_try) :
               k > FamilyIndex(ops[i].unit) => Attempts(k) = 0

\* The second family's login is refused after the first failed softly; two
\* families are still untried.
C2_Witness ==
    /\ path = "auto"
    /\ pc = "done"
    /\ Len(ops) >= 2
    /\ ops[Len(ops)].kind = "auth"
    /\ ops[Len(ops)].unit = device_types_to_try[2]
    /\ result = None

\* C3: for a declared family, on the paramiko, netmiko and subprocess paths,
\* when the first operation is an authentication failure the call returns
\* the failure at once and no further operation is attempted.
C3_AuthFailureFirstStopsFamilyCheck ==
    ( /\ path \in {"paramiko", "netmiko", "subprocess"}
      /\ Len(ops) >= 1
      /\ ops[1].kind = "auth" )
    => /\ Len(ops) = 1
       /\ pc = "done" => result = None

\* C4: in auto-detection every failure other than an authentication failure
\* moves on to the next family when one remains; a call that returns None
\* either ended on an authentication failure or has attempted every family
\* of the list exactly once.
C4_SoftFailuresTryNextFamily ==
    path = "auto" =>
      /\ \A i \in 1..Len(ops) :
           ( SoftFailure(ops[i]) /\ FamilyIndex(ops[i].unit) < Len(device_types_to_try) )
           => \/ Attempts(FamilyIndex(ops[i].unit) + 1) = 1
              \/ ( /\ pc = "auto_connect"
                   /\ idx = FamilyIndex(ops[i].unit) + 1
                   /\ i = Len(ops) )
      /\ ( pc = "done" /\ result = None )
         => \/ ops[Len(ops)].kind = "auth"
            \/ /\ exit = "exhausted"
               /\ \A k \in 1..Len(device_types_to_try) : Attempts(k) = 1
               /\ SoftFailure(ops[Len(ops)])
               /\ ops[Len(ops)].unit = device_types_to_try[Len(device_types_to_try)]

\* All four families failed softly, by a timeout, another exception and an
\* empty output among them.
C4_Witness ==
    /\ path = "auto"
    /\ pc = "done"
    /\ exit = "exhausted"
    /\ \E i \in 1..Len(ops) : ops[i].kind = "timeout"
    /\ \E i \in 1..Len(ops) : ops[i].kind = "error"
    /\ \E i \in 1..Len(ops) : ops[i].kind = "output" /\ ops[i].out = TxtEmpty

\* The running call is a per-family command chain whose candidates were
\* reached: a paramiko chain that connected, or the subprocess chain.
ChainRan ==
    \/ path = "paramiko" /\ Len(ops) >= 1 /\ ops[1].kind = "ok"
    \/ path = "subprocess" /\ commands # << >>

\* C5: a per-family chain over a non-empty candidate list returns a text if
\* and only if some candidate's output is accepted, and the text is the
\* trimmed output of the first accepted candidate in declared order: a
\* returned text comes from an accepted candidate all of whose predecessors
\* were tried and rejected, and a call that returns None has tried every
\* candidate of the list and accepted none.  (Calls that met an
\* authentication failure are the subject of C3.)
C5_SuccessIffSomeCandidateAccepted ==
    ( /\ ChainRan
      /\ pc = "done"
      /\ \A i \in 1..Len(ops) : ops[i].kind # "auth" )
    => IF result = None
       THEN /\ \A i \in CommandOps : ~ops[i].accepted
            /\ \A c \in 1..Len(commands) :
                 \E i \in CommandOps : ops[i].unit = commands[c]
       ELSE \E i \in CommandOps :
              /\ ops[i].accepted
              /\ result = Str(Strip(ops[i].out))
              /\ \A j \in CommandOps : j < i => ~ops[j].accepted

\* C6: in a per-family chain an accepted output is the last command issued:
\* the paramiko chain goes straight to close and return, the subprocess
\* chain returns, and the value returned is that output trimmed.
C6_FirstSuccessWinsInChain ==
    path \in {"paramiko", "subprocess"} =>
      \A i \in 1..Len(ops) :
        ops[i].accepted =>
          /\ i = Len(ops)
          /\ pc \in {"paramiko_close", "done"}
          /\ pc = "done" => result = Str(Strip(ops[i].out))

\* The first command of the three-command Cisco paramiko chain was accepted
\* and the call has returned with two candidates never issued.
C6_Witness ==
    /\ path = "paramiko"
    /\ pc = "done"
    /\ Len(commands) = 3
    /\ Len(ops) = 2
    /\ ops[2].accepted
    /\ result = Str(Strip(ops[2].out))

\* C7: in a per-family chain a candidate that fails for any reason other
\* than an authentication failure never ends the chain while a candidate
\* remains: it is followed by the next candidate, or the chain is about to
\* issue it; in the subprocess chain the failure is the remembered
\* last_error.
C7_SoftFailureTriesNextCandidate ==
    path \in {"paramiko", "subprocess"} =>
      \A i \in CommandOps :
        ( SoftFailure(ops[i]) /\ ops[i].unit # commands[Len(commands)] )
        => \/ i < Len(ops)
           \/ /\ pc \in {"paramiko_exec", "subprocess_run"}
              /\ commands[idx - 1] = ops[i].unit
              /\ path = "subprocess" => last_error.command = ops[i].unit

\* C8: when remote_check_version has returned, no connection opened during
\* the call is still open.
C8_NoConnectionLeftOpen ==
    pc = "done" => connOpen = 0

C10_ReturnedTextPassedValidator ==
    ( pc = "done" /\ result # None )
    => /\ Strip(result.text) # << >>
       /\ ~Contains(Lower(result.text), NeedleCommandNotFound)

\* The device types the if/elif ladder of _remote_check_with_subprocess
\* names; every other device type (but 'auto') is unsupported.
SupportedFamilies ==
    { Dt_cisco, Dt_juniper, Dt_ubiquiti, Dt_linux, Dt_windows, Dt_macos }

\* C11: a call for a device type that is not a supported family performs no
\* operation against the host (no connect, no command) and returns None,
\* whichever libraries are available and whether or not a password is set.
C11_UnsupportedFamilyOpensNoConnection ==
    ( /\ pc # "idle"
      /\ Lower(device_type) \notin SupportedFamilies
      /\ Lower(device_type) # Dt_auto )
    => /\ ops = << >>
       /\ pc = "done" => result = None

IsPrefix(s, t) ==
    /\ Len(s) <= Len(t)
    /\ \A i \in 1..Len(s) : s[i] = t[i]

\* The families connected to, and the commands issued, by the running
\* call, in the order of the operations.
ConnectUnits ==
    LET sel == SelectSeq(ops, LAMBDA o : o.op = "connect")
    IN [i \in 1..Len(sel) |-> sel[i].unit]

CommandUnits ==
    LET sel == SelectSeq(ops, LAMBDA o : o.op = "command")
    IN [i \in 1..Len(sel) |-> sel[i].unit]

\* C12: attempts follow the declared order.  In auto-detection the families
\* connected to are a prefix of device_types_to_try and each command goes to
\* the family connected to just before it; in a per-family check the
\* commands issued are a prefix of the candidate list; and every operation
\* but the last one of a call was not accepted (the next attempt is made
\* only after the previous one failed).
C12_AttemptsInDeclaredOrder ==
    /\ path = "auto" =>
         /\ IsPrefix(ConnectUnits, device_types_to_try)
         /\ \A i \in CommandOps :
              /\ i > 1
              /\ ops[i - 1].op = "connect"
              /\ ops[i - 1].kind = "ok"
              /\ ops[i - 1].unit = ops[i].unit
    /\ path \in {"paramiko", "netmiko", "subprocess"} =>
         IsPrefix(CommandUnits, commands)
    /\ \A i \in 1..Len(ops) : i < Len(ops) => ~ops[i].accepted

\* Auto-detection went through all four families, in the declared order.
C12_Witness ==
    /\ path = "auto"
    /\ pc = "done"
    /\ ConnectUnits = device_types_to_try
    /\ CommandUnits # << >>

\* The fallback chain of the family a netmiko device type of the
\* auto-detection list stands for.
FamilyChain(u) ==
    IF u = "juniper" THEN ParamikoCommands("juniper") ELSE ParamikoCommands("cisco")

\* The commands auto-detection has issued to family k of its list: each
\* command operation of the loop is send_command('show version').
AutoIssued(k) ==
    { commands[1] : i \in { j \in CommandOps : ops[j].unit = device_types_to_try[k] } }

\* Family k was connected to, none of its outputs was accepted, and the
\* loop has left it (a later family was attempted or the call returned).
AutoFamilyGivenUp(k) ==
    /\ \E i \in 1..Len(ops) :
         ops[i].op = "connect" /\ ops[i].kind = "ok"
         /\ ops[i].unit = device_types_to_try[k]
    /\ \A i \in 1..Len(ops) : ops[i].unit = device_types_to_try[k] => ~ops[i].accepted
    /\ \/ pc = "done"
       \/ \E i \in 1..Len(ops) : FamilyIndex(ops[i].unit) > k

\* C13: auto-detection runs each family's full fallback chain: a family it
\* connected to is given up only after every candidate command of that
\* family's chain, wrapper commands included, has been issued to it (so a
\* host the declared-family check succeeds on is not missed).
C13_AutoRunsFullFamilyChain ==
    path = "auto" =>
      \A k \in 1..Len(device_types_to_try) :
        AutoFamilyGivenUp(k) =>
          \A c \in 1..Len(FamilyChain(device_types_to_try[k])) :
            FamilyChain(device_types_to_try[k])[c] \in AutoIssued(k)

\* An operation that ended in an exception.
Failed(o) == o.kind \notin {"ok", "output"}

\* C14: remote_check_version never lets an exception out: whatever the
\* device type and however an operation fails (login refused, timeout,
\* connection or protocol error, any other exception), no exception leaves
\* the call; a call that has ended has ended by a return statement, and
\* when its last operation failed the value returned is None.
C14_FailuresReturnedNotRaised ==
    /\ pc # "raised"
    /\ pc = "done" => exit # "none"
    /\ ( pc = "done" /\ Len(ops) >= 1 /\ Failed(ops[Len(ops)]) ) => result = None

\* A subprocess chain ended on an exception that is not a
\* CalledProcessError, and the call returned None.
C14_Witness ==
    /\ path = "subprocess"
    /\ pc = "done"
    /\ Len(ops) >= 1
    /\ ops[Len(ops)].kind = "decode_error"
    /\ exit = "exception"
    /\ result = None

\* The call has returned, or has not started.
Terminal == pc \in {"idle", "done"}

\* C15: every network I/O step is bounded by a timeout, so whatever the
\* host does a call that is under way can always take a further step: it is
\* never stuck waiting for the host.
C15_EveryIoStepBounded == Terminal \/ ENABLED Next

\* The failure that operation o leaves to be remembered.
FailureOf(o) ==
    [kind |-> IF o.kind = "output" THEN "invalid_output" ELSE "CalledProcessError",
     command |-> o.unit]

Classification(how) ==
    CASE how = "success" -> "Success"
      [] how = "auth" -> "AuthenticationFailure"
      [] how = "timeout" -> "Timeout"
      [] how \in {"ssh_error", "error", "exception"} -> "TransportError"
      [] how \in {"all_failed", "no_output", "exhausted"} -> "EmptyOrInvalid"
      [] OTHER -> "none"

\* What a caller can read from the returned value: a text is a success,
\* None carries no classification.
ClassificationIn(val) == IF val = None THEN "none" ELSE "Success"

\* C17: the value returned for a host is a version string or a failure
\* that carries its classification: from the returned value the caller can
\* tell whether the call ended in an authentication failure, a timeout, a
\* transport error or exhausted candidates.
C17_ReturnedValueCarriesClassification ==
    ( pc = "done" /\ Classification(exit) # "none" ) =>
        ClassificationIn(result) = Classification(exit)

\* Connect operations of the running call.
ConnectOps == { i \in 1..Len(ops) : ops[i].op = "connect" }

\* C18: a paramiko chain connects exactly once per call however many
\* candidates it tries: every command follows the one successful connect,
\* and the connection is still open while commands remain and until the
\* loop has been left.
C18_ParamikoOneConnectionPerCall ==
    path = "paramiko" =>
        /\ Cardinality(ConnectOps) = (IF pc = "paramiko_connect" THEN 0 ELSE 1)
        /\ \A i \in CommandOps :
             i > 1 /\ ops[1].op = "connect" /\ ops[1].kind = "ok"
        /\ pc \in {"paramiko_exec", "paramiko_close"} => connOpen >= 1

\* A paramiko chain that issued several commands has returned.
C18_Witness ==
    /\ path = "paramiko"
    /\ pc = "done"
    /\ Cardinality(CommandOps) >= 2
    /\ Cardinality(ConnectOps) = 1

\* The ordered candidate list that transport path p tries for device type dt.
CandidateList(p, dt) ==
    CASE p = "paramiko" ->
           ParamikoCommands(IF Lower(dt) = Dt_cisco THEN "cisco" ELSE "juniper")
      [] p = "netmiko" -> << "show version" >>
      [] OTHER -> SubprocessCommands(dt)

\* The transport paths that the dispatch can hand device type dt to.
PathsServing(dt) ==
    (IF Lower(dt) \in {Dt_cisco, Dt_juniper} THEN {"paramiko"} ELSE {})
        \cup {"netmiko", "subprocess"}

\* C19: the candidate list is a function of the device family alone: the
\* list the running path tries is the list every other path serving that
\* family would try, whatever libraries are installed and whether or not a
\* password is set.
C19_CandidatesSameOnEveryPath ==
    ( /\ pc # "idle"
      /\ path \in {"paramiko", "netmiko", "subprocess"}
      /\ Lower(device_type) \in SupportedFamilies ) =>
        \A q \in PathsServing(device_type) :
            commands = CandidateList(q, device_type)

(* ------------- two calls with the same transport responses ------------- *)

\* What a caller keeps of a call that has returned.
Remembered ==
    [device_type |-> device_type, ops |-> ops, result |-> result, exit |-> exit]

\* The host answers the running call as it answered the call before: every
\* operation issued so far got the response the operation at the same place
\* of the previous call got, and no operation is left unanswered.
Replays ==
    calls >= 2 =>
        /\ pc # "blocked"
        /\ \A i \in 1..Len(ops) :
             i <= Len(prev.ops) =>
                 /\ ops[i].kind = prev.ops[i].kind
                 /\ ops[i].out = prev.ops[i].out

\* The caller calls remote_check_version again, with the device type of the
\* call that has returned.
ReplayCall(dt) ==
    /\ pc = "done" => dt = device_type
    /\ remote_check_version(dt)
    /\ prev' = IF pc = "done" THEN Remembered ELSE prev
    /\ UNCHANGED inventory

\* One operation against the host.
HostStep ==
    \/ auto_connect
    \/ auto_send
    \/ paramiko_connect
    \/ paramiko_exec_command
    \/ paramiko_close
    \/ netmiko_connect
    \/ netmiko_send_command
    \/ subprocess_check_output

ReplayNext ==
    \/ \E dt \in DeviceTypes : ReplayCall(dt)
    \/ HostStep /\ Replays'

ReplaySpec == Init /\ [][ReplayNext]_vars

\* C20: a call repeated on the same checker with the same device type and
\* the same transport responses issues the same operations and ends the same
\* way with the same value as the call before: nothing the first call wrote
\* influences the second.
C20_SameResponsesSameOutcome ==
    ( calls >= 2 /\ pc = "done" ) =>
        /\ ops = prev.ops
        /\ result = prev.result
        /\ exit = prev.exit

\* A repeated call has returned a text after a chain of several operations.
C20_Witness ==
    /\ calls >= 2
    /\ pc = "done"
    /\ Len(ops) >= 3
    /\ exit = "success"
    /\ result = prev.result

\* The running (or last) call asked for auto-detection on a checker that
\* cannot run it.
AutoUnavailable ==
    /\ pc # "idle"
    /\ Lower(device_type) = Dt_auto
    /\ ~(NETMIKO_AVAILABLE /\ PasswordSet)

\* C29: a call for 'auto' without netmiko or without a password returns
\* None at once: the call has ended when its dispatch has, and no operation
\* (connect or command, on any transport) was issued against the host.
C29_AutoUnavailableNoConnection ==
    AutoUnavailable =>
        /\ pc = "done"
        /\ result = None
        /\ exit = "auto_unavailable"
        /\ ops = << >>

\* A call for 'auto' on a checker with netmiko but no password has returned.
C29_Witness ==
    /\ AutoUnavailable
    /\ NETMIKO_AVAILABLE
    /\ pc = "done"
    /\ result = None

\* The positions of a call inside each transport path.
PositionsOf(p) ==
    CASE p = "auto" -> {"auto_connect", "auto_send"}
      [] p = "paramiko" -> {"paramiko_connect", "paramiko_exec", "paramiko_close"}
      [] p = "netmiko" -> {"netmiko_connect", "netmiko_send"}
      [] p = "subprocess" -> {"subprocess_run", "blocked"}
      [] OTHER -> {}

\* The transport that performed a connect operation, by what it connected
\* with.
ConnectedBy(o) ==
    IF o.unit = "paramiko" THEN {"paramiko"} ELSE {"auto", "netmiko"}

AttemptsBounded ==
    /\ path = "auto" =>
         /\ \A k \in 1..Len(device_types_to_try) : Attempts(k) <= 1
         /\ Cardinality(ConnectOps) <= Len(device_types_to_try)
    /\ path \in {"paramiko", "netmiko"} => Cardinality(ConnectOps) <= 1
    /\ path # "auto" =>
         /\ Cardinality(CommandOps) <= Len(commands)
         /\ \A i, j \in CommandOps : ops[i].unit = ops[j].unit => i = j

\* C28: every call ends after a bounded number of attempts: no family and
\* no candidate command is attempted twice, the attempts never outnumber
\* the family list or the candidate list, and a call that has not ended can
\* always take its next step.
C28_CallEndsAfterBoundedAttempts ==
    /\ AttemptsBounded
    /\ pc \notin {"idle", "done"} => ENABLED Next

\* C27: at every point of a call at most one connection to the host is
\* open: attempts do not overlap, a connection is opened only when the
\* previous one has been closed.
C27_AtMostOneConnectionOpen == pc # "idle" => connOpen <= 1

\* Python truthiness of a returned value: None and '' are false.
PyTruthy(val) == ~val.isNone /\ Truthy(val.text)

\* main: `if version:` prints the version, else prints the failure and
\* calls sys.exit(1).
CliExitStatus(version) == IF PyTruthy(version) THEN 0 ELSE 1

\* C30: the value a call returns is None or a non-empty text without
\* leading or trailing whitespace, and it is a text exactly when the call
\* succeeded; so the truthiness test of the command line ends with status 0
\* exactly for a successful call and with status 1 exactly for a failed one.
C30_ReturnedValueNoneOrStrippedText ==
    pc = "done" =>
        /\ \/ result = None
           \/ /\ ~result.isNone
              /\ Truthy(result.text)
              /\ Strip(result.text) = result.text
        /\ (exit = "success") <=> (result # None)
        /\ CliExitStatus(result) = (IF exit = "success" THEN 0 ELSE 1)

\* A call returned a text that the host had sent with whitespace around it.
C30_Witness ==
    /\ pc = "done"
    /\ exit = "success"
    /\ Len(ops) >= 1
    /\ ops[Len(ops)].out # result.text
    /\ CliExitStatus(result) = 0

\* The device did not recognise what operation o sent: the prompt of the
\* declared family was not detected, or the answer says the command was
\* not found.
Unrecognized(o) ==
    \/ o.kind \in NetmikoPromptFailures
    \/ o.kind = "output" /\ Contains(Lower(o.out), NeedleNotFound)

\* A call for a declared family has failed with every command it issued
\* rejected as unrecognized by the device.
AllCommandsUnrecognized ==
    /\ pc = "done"
    /\ path \in {"paramiko", "netmiko", "subprocess"}
    /\ result = None
    /\ CommandOps # {}
    /\ \A i \in CommandOps : Unrecognized(ops[i])

\* C22: a failed check for a declared family whose commands were all
\* rejected as unrecognized by the device logs a hint naming another family
\* or auto-detection, whichever transport path handled the family.
C22_UnrecognizedFamilyGetsHint == AllCommandsUnrecognized => hint # "none"

(* ---------------------------- local checker ---------------------------- *)

\* The variables of the remote engine that no other part of the program
\* touches.
engine == << path, device_type, commands, ops, connOpen, last_error, output,
             calls, hint, prev >>

\* str.startswith
StartsWith(s, prefix) ==
    /\ Len(s) >= Len(prefix)
    /\ SubSeq(s, 1, Len(prefix)) = prefix

\* The positions of character c in s.
Positions(s, c) == { i \in 1..Len(s) : s[i] = c }

\* Least element of a non-empty set of numbers.
Least(S) == CHOOSE m \in S : \A n \in S : m <= n

\* s.split(c)[1]: the text between the first c and the second c (or the end
\* of s).  Defined when s contains c; else Python raises IndexError.
SplitField1(s, c) ==
    LET first == Least(Positions(s, c))
        later == { i \in Positions(s, c) : i > first }
        last == IF later = {} THEN Len(s) ELSE Least(later) - 1 IN
    SubSeq(s, first + 1, last)

RECURSIVE LStripChars(_, _)
\* str.lstrip(chars)
LStripChars(s, chars) ==
    IF s # << >> /\ s[1] \in chars THEN LStripChars(Tail(s), chars) ELSE s

RECURSIVE RStripChars(_, _)
\* str.rstrip(chars)
RStripChars(s, chars) ==
    IF s # << >> /\ s[Len(s)] \in chars
    THEN RStripChars(SubSeq(s, 1, Len(s) - 1), chars)
    ELSE s

\* str.strip(chars)
StripChars(s, chars) == RStripChars(LStripChars(s, chars), chars)

KeyPrettyName ==
    << "P", "R", "E", "T", "T", "Y", "_", "N", "A", "M", "E" >>

LinePrettyName ==
    << "P", "R", "E", "T", "T", "Y", "_", "N", "A", "M", "E", "=", "\"", "D", " ", "1", "2", "\"", "\n" >>

LineId ==
    << "I", "D", "=", "d", "\n" >>

LineNoEquals ==
    << "P", "R", "E", "T", "T", "Y", "_", "N", "A", "M", "E", "\n" >>

LineEmptyValue ==
    << "P", "R", "E", "T", "T", "Y", "_", "N", "A", "M", "E", "=", "\n" >>

OsReleaseLines == { LinePrettyName, LineId, LineNoEquals, LineEmptyValue }

\* The longest /etc/os-release explored, in lines.
MaxLines == 2

\* The contents of /etc/os-release explored: no file, or up to MaxLines lines.
OsReleaseFiles ==
    { NoFile } \cup
    { [exists |-> TRUE, lines |-> l] :
        l \in UNION { [1..n -> OsReleaseLines] : n \in 0..MaxLines } }

\* platform.system()
Systems == { "Linux", "Windows", "Darwin", "FreeBSD" }

TxtWindowsPlatform ==
    << "W", "i", "n", "d", "o", "w", "s", "-", "1", "0" >>

TxtMacVer ==
    << "1", "4", ".", "1" >>

\* line.split('=')[1].strip().strip('"')
PrettyNameValue(line) ==
    StripChars(Strip(SplitField1(line, "=")), {"\""})

\* LocalSysVersChecker() on some machine.
LocalConstruct ==
    /\ system \in Systems
    /\ os_release \in OsReleaseFiles

LocalInit ==
    /\ Construct
    /\ NETMIKO_AVAILABLE /\ PARAMIKO_AVAILABLE /\ password = "secret"
    /\ EngineIdle
    /\ LocalConstruct
    /\ NoInventoryCall
    /\ NoCommandLine

\* local_check_version: the if/elif ladder on self.system.
local_check_version ==
    /\ pc = "idle"
    /\ system # "none"
    /\ CASE system = "Linux" -> pc' = "linux_open" /\ Running
         [] system = "Windows" -> pc' = "windows" /\ Running
         [] system = "Darwin" -> pc' = "macos" /\ Running
         [] OTHER -> Return(None, "unsupported")
    /\ idx' = 1
    /\ UNCHANGED << engine, local, inventory, cli, config >>

\* local_check_linux: open('/etc/os-release') and f.readlines().  A failing
\* open is caught by `except Exception`; an empty file leaves the loop at
\* once and the method ends without a return statement.
local_check_linux_open ==
    /\ pc = "linux_open"
    /\ IF ~os_release.exists
       THEN Return(None, "exception")
       ELSE IF os_release.lines = << >>
       THEN Return(None, "no_return")
       ELSE pc' = "linux_line" /\ UNCHANGED << result, exit >>
    /\ UNCHANGED << idx, engine, local, inventory, cli, config >>

\* One iteration of `for line in lines` of local_check_linux.
local_check_linux_line ==
    /\ pc = "linux_line"
    /\ LET line == os_release.lines[idx] IN
       IF StartsWith(line, KeyPrettyName)
       THEN /\ idx' = idx
            /\ IF Positions(line, "=") = {}
               THEN Return(None, "exception")
               ELSE Return(Str(PrettyNameValue(line)), "success")
       ELSE IF idx < Len(os_release.lines)
       THEN /\ idx' = idx + 1
            /\ UNCHANGED << pc, result, exit >>
       ELSE /\ idx' = idx
            /\ Return(None, "no_return")
    /\ UNCHANGED << engine, local, inventory, cli, config >>

\* local_check_windows: platform.platform().
local_check_windows ==
    /\ pc = "windows"
    /\ \/ Return(Str(TxtWindowsPlatform), "success")
       \/ Return(None, "exception")
    /\ UNCHANGED << idx, engine, local, inventory, cli, config >>

\* local_check_macos: platform.mac_ver()[0], which is '' when the version
\* cannot be determined.
local_check_macos ==
    /\ pc = "macos"
    /\ \/ \E v \in { TxtMacVer, TxtEmpty } : Return(Str(v), "success")
       \/ Return(None, "exception")
    /\ UNCHANGED << idx, engine, local, inventory, cli, config >>

LocalNext ==
    \/ local_check_version
    \/ local_check_linux_open
    \/ local_check_linux_line
    \/ local_check_windows
    \/ local_check_macos

LocalSpec == LocalInit /\ [][LocalNext]_vars

\* C25: local_check_version returns a version, not None, whenever the
\* detected system is Linux, Windows or Darwin, whatever the platform
\* sources contain, and returns None for every other system.
C25_LocalVersionForSupportedSystems ==
    pc = "done" =>
        ( result # None <=> system \in {"Linux", "Windows", "Darwin"} )

(* ------------------------------ inventory ------------------------------ *)

\* A list returned by recover_device_list.
List(items) == [isList |-> TRUE, items |-> items]

\* The device lists an inventory answers with.
DeviceLists == { << >>, << "r1" >>, << "r1", "r2" >> }

\* Ways the GraphQL request fails: connection error, raise_for_status(),
\* an answer without data[device_schema]['edges'].
GraphqlFailures == {"connect_error", "http_error", "bad_payload"}

\* Ways the SDK request fails.
SdkFailures == {"error"}

Request(api, outcome, payload) ==
    [api |-> api, outcome |-> outcome, payload |-> payload]

\* InventoryStep that consults the SDK after a successful GraphQL request.
InventoryStep_SdkAlways(api, outcome, token, sdk) ==
    IF api = "graphql" /\ sdk /\ token THEN "try_sdk"
    ELSE IF outcome = "ok" THEN "return_devices"
    ELSE "return_empty"

\* What recover_device_list does after a request: a successful request
\* returns its devices; a failed GraphQL request is logged and the SDK is
\* tried if it is installed and a token is set; otherwise the method ends
\* with `return devices`, the empty list.
InventoryStep(api, outcome, token, sdk) ==
    IF outcome = "ok" THEN "return_devices"
    ELSE IF api = "graphql" /\ sdk /\ token THEN "try_sdk"
    ELSE "return_empty"

\* AttributesKept for a method that stores the inventory in self.device.
AttributesKept_DeviceStored ==
    /\ UNCHANGED << username, password, port >>
    /\ device' = IF pc' = "listed" THEN "devices" ELSE device

\* recover_device_list reads self.infrahub_token and assigns no attribute
\* of self.
AttributesKept == UNCHANGED << username, password, port, device >>

flags == << NETMIKO_AVAILABLE, PARAMIKO_AVAILABLE >>

InventoryReturn(val) ==
    /\ pc' = "listed"
    /\ devices' = val

\* recover_device_list, up to the first request: the token (attribute or
\* INFRAHUB_API_TOKEN) and the two optional imports decide where to start.
recover_device_list ==
    /\ pc \in {"idle", "done", "listed"}
    /\ calls < MaxCalls
    /\ calls' = calls + 1
    /\ path' = "none"
    /\ device_type' = << >>
    /\ commands' = << >>
    /\ idx' = 1
    /\ ops' = << >>
    /\ last_error' = NoError
    /\ output' = None
    /\ hint' = "none"
    /\ Running
    /\ requests' = << >>
    /\ \E token \in BOOLEAN, client \in BOOLEAN, sdk \in BOOLEAN :
         /\ infrahub_token' = token
         /\ httpx' = client
         /\ InfrahubClientSync' = sdk
         /\ IF token /\ client
            THEN pc' = "graphql" /\ devices' = NoDevices
            ELSE IF sdk /\ token
            THEN pc' = "sdk" /\ devices' = NoDevices
            ELSE InventoryReturn(List(<< >>))
    /\ AttributesKept
    /\ UNCHANGED << flags, connOpen, prev, local, cli >>

\* The GraphQL attempt: client.post, raise_for_status, response.json, the
\* list comprehension over the edges; every exception is caught.
graphql_request ==
    /\ pc = "graphql"
    /\ \E outcome \in {"ok"} \cup GraphqlFailures :
       \E payload \in (IF outcome = "ok" THEN DeviceLists ELSE {<< >>}) :
         LET step == InventoryStep("graphql", outcome, infrahub_token,
                                   InfrahubClientSync) IN
         /\ requests' = Append(requests, Request("graphql", outcome, payload))
         /\ CASE step = "return_devices" -> InventoryReturn(List(payload))
              [] step = "try_sdk" -> pc' = "sdk" /\ UNCHANGED devices
              [] OTHER -> InventoryReturn(List(<< >>))
    /\ AttributesKept
    /\ UNCHANGED << flags, infrahub_token, httpx, InfrahubClientSync, engine,
                    idx, result, exit, local, cli >>

\* The SDK attempt: InfrahubClientSync(...).all(device_schema); every
\* exception is caught.
sdk_request ==
    /\ pc = "sdk"
    /\ \E outcome \in {"ok"} \cup SdkFailures :
       \E payload \in (IF outcome = "ok" THEN DeviceLists ELSE {<< >>}) :
         LET step == InventoryStep("sdk", outcome, infrahub_token,
                                   InfrahubClientSync) IN
         /\ requests' = Append(requests, Request("sdk", outcome, payload))
         /\ CASE step = "return_devices" -> InventoryReturn(List(payload))
              [] step = "try_sdk" -> pc' = "sdk" /\ UNCHANGED devices
              [] OTHER -> InventoryReturn(List(<< >>))
    /\ AttributesKept
    /\ UNCHANGED << flags, infrahub_token, httpx, InfrahubClientSync, engine,
                    idx, result, exit, local, cli >>

\* The locals of a recover_device_list call that has returned are gone.
InventoryForgotten ==
    /\ infrahub_token' = FALSE
    /\ httpx' = FALSE
    /\ InfrahubClientSync' = FALSE
    /\ requests' = << >>
    /\ devices' = NoDevices

\* A checker used as a library: remote_check_version and
\* recover_device_list called one after the other, in any order.
CheckerNext ==
    \/ \E dt \in DeviceTypes :
         remote_check_version(dt) /\ UNCHANGED prev /\ InventoryForgotten
    \/ HostStep
    \/ recover_device_list
    \/ graphql_request
    \/ sdk_request

CheckerSpec == Init /\ [][CheckerNext]_vars

\* C24: recover_device_list never raises and returns a list, whatever the
\* token, the installed libraries and the outcome of the requests; the SDK
\* is asked only when the GraphQL request was skipped or has failed, and
\* the devices of a successful GraphQL request are returned without asking
\* the SDK.
C24_InventoryAlwaysReturnsList ==
    /\ pc # "raised"
    /\ pc = "listed" => devices.isList
    /\ \A i \in 1..Len(requests) :
         requests[i].api = "sdk" =>
             /\ InfrahubClientSync /\ infrahub_token
             /\ \/ i = 1 /\ ~(infrahub_token /\ httpx)
                \/ /\ i = 2
                   /\ requests[1].api = "graphql"
                   /\ requests[1].outcome # "ok"
    /\ ( Len(requests) >= 1 /\ requests[1].api = "graphql"
         /\ requests[1].outcome = "ok" ) =>
             /\ Len(requests) = 1
             /\ pc = "listed"
             /\ devices = List(requests[1].payload)

\* The GraphQL request failed and the SDK delivered the devices.
C24_Witness ==
    /\ pc = "listed"
    /\ Len(requests) = 2
    /\ requests[1].outcome # "ok"
    /\ requests[2].outcome = "ok"
    /\ devices.isList
    /\ devices.items # << >>

\* C21: no call of remote_check_version or recover_device_list, whatever
\* its outcome, changes the username, the password or the port of the
\* checker, and its device attribute stays None.
C21_AttributesNeverMutated ==
    [][ /\ username' = username
        /\ password' = password
        /\ port' = port
        /\ device' = "None" ]_vars

\* recover_device_list has returned devices on a checker whose earlier
\* remote_check_version call had its login refused.
C21_Witness ==
    /\ pc = "listed"
    /\ calls = 2
    /\ connOpen = 1
    /\ devices.items # << >>
    /\ device = "None"

(* ----------------------------- command line ---------------------------- *)

\* The values of --device-type explored (argparse admits lower-case names
\* only); << >> stands for an absent option.
CliDeviceTypes == { Dt_auto, Dt_juniper, Dt_cisco, Dt_linux, << >> }

\* The parsed command lines; without --local, --remote and --list-devices
\* main sets args.local.
CommandLines ==
    { a \in [local : BOOLEAN, remote : BOOLEAN, list_devices : BOOLEAN,
             device_type : CliDeviceTypes, prompt_credentials : BOOLEAN] :
        /\ a.local \/ a.remote \/ a.list_devices
        /\ ~a.remote => a.device_type = << >> }

\* The local machines main is run on.
CliMachines ==
    { << "Linux", [exists |-> TRUE, lines |-> << LinePrettyName >>] >>,
      << "Linux", [exists |-> TRUE, lines |-> << LineId >>] >>,
      << "FreeBSD", NoFile >> }

CliInit ==
    /\ Construct
    /\ EngineIdle
    /\ NoInventoryCall
    /\ args \in CommandLines
    /\ stage = "credentials"
    /\ status = "none"
    /\ printed = << >>
    /\ IF args.local
       THEN \E m \in CliMachines : system = m[1] /\ os_release = m[2]
       ELSE NoLocalChecker

Entry(host, ok) == [host |-> host, ok |-> ok]

\* sys.exit(1)
Exit ==
    /\ stage' = "exited"
    /\ status' = 1

\* The prompts of `if args.prompt_credentials:`, in the order main issues
\* them: user name and password of the remote host, then the inventory token.
CredentialPrompts ==
    IF args.prompt_credentials
    THEN (IF args.remote THEN << Entry("ssh_credentials", TRUE) >> ELSE << >>) \o
         (IF args.list_devices THEN << Entry("infrahub_token", TRUE) >> ELSE << >>)
    ELSE << >>

\* main, from parse_args to the first check: with --prompt-credentials the
\* credentials of the remote host and of the inventory are asked for.
cli_prompt_credentials ==
    /\ stage = "credentials"
    /\ printed' = printed \o CredentialPrompts
    /\ stage' = "local"
    /\ UNCHANGED << args, status, pc, idx, result, exit, engine, local,
                    inventory, config >>

\* main, `if args.local:` not taken.
cli_skip_local ==
    /\ stage = "local"
    /\ ~args.local
    /\ stage' = "remote"
    /\ UNCHANGED << args, status, printed, pc, idx, result, exit, engine, local,
                    inventory, config >>

\* main, after checker.local_check_version(): `if version:` print, else
\* print the failure and sys.exit(1).
cli_local_result ==
    /\ stage = "local"
    /\ args.local
    /\ pc = "done"
    /\ printed' = Append(printed, Entry("local", PyTruthy(result)))
    /\ IF CliExitStatus(result) = 0
       THEN stage' = "remote" /\ UNCHANGED status
       ELSE Exit
    /\ UNCHANGED << args, pc, idx, result, exit, engine, local, inventory, config >>

\* main, `if args.remote:` not taken.
cli_skip_remote ==
    /\ stage = "remote"
    /\ ~args.remote
    /\ stage' = "list"
    /\ UNCHANGED << args, status, printed, pc, idx, result, exit, engine, local,
                    inventory, config >>

\* cli_no_device_type with the sys.exit(1) forgotten: main goes on to the
\* device list after the error message.
cli_no_device_type_Continues ==
    /\ stage = "remote"
    /\ args.remote
    /\ args.device_type = << >>
    /\ stage' = "list"
    /\ UNCHANGED << args, status, printed, pc, idx, result, exit, engine, local,
                    inventory, config >>

\* main, `if not args.device_type:` print the error and sys.exit(1).
cli_no_device_type ==
    /\ stage = "remote"
    /\ args.remote
    /\ args.device_type = << >>
    /\ Exit
    /\ UNCHANGED << args, printed, pc, idx, result, exit, engine, local,
                    inventory, config >>

\* main, checker.remote_check_version(args.remote, args.device_type).
cli_remote_call ==
    /\ stage = "remote"
    /\ args.remote
    /\ args.device_type # << >>
    /\ calls = 0
    /\ remote_check_version(args.device_type)
    /\ UNCHANGED << prev, inventory >>

\* main, after remote_check_version: `if version:` print, else print the
\* failure and sys.exit(1).
cli_remote_result ==
    /\ stage = "remote"
    /\ calls = 1
    /\ pc = "done"
    /\ printed' = Append(printed, Entry("remote", PyTruthy(result)))
    /\ IF CliExitStatus(result) = 0
       THEN stage' = "list" /\ UNCHANGED status
       ELSE Exit
    /\ UNCHANGED << args, pc, idx, result, exit, engine, local, inventory, config >>

\* main, `if args.list_devices:` not taken: main returns.
cli_skip_list ==
    /\ stage = "list"
    /\ ~args.list_devices
    /\ stage' = "end"
    /\ status' = 0
    /\ UNCHANGED << args, printed, pc, idx, result, exit, engine, local,
                    inventory, config >>

\* main, checker.recover_device_list().
cli_list_call ==
    /\ stage = "list"
    /\ args.list_devices
    /\ pc \in {"idle", "done"}
    /\ recover_device_list

\* main, after recover_device_list: the devices or 'No devices found' are
\* printed and main returns.
cli_list_result ==
    /\ stage = "list"
    /\ pc = "listed"
    /\ printed' = Append(printed, Entry("inventory", devices.items # << >>))
    /\ stage' = "end"
    /\ status' = 0
    /\ UNCHANGED << args, pc, idx, result, exit, engine, local, inventory, config >>

CliNext ==
    \/ cli_prompt_credentials
    \/ cli_skip_local
    \/ stage = "local" /\ args.local /\ LocalNext
    \/ cli_local_result
    \/ cli_skip_remote
    \/ cli_no_device_type
    \/ cli_remote_call
    \/ stage = "remote" /\ HostStep
    \/ cli_remote_result
    \/ cli_skip_list
    \/ cli_list_call
    \/ stage = "list" /\ (graphql_request \/ sdk_request)
    \/ cli_list_result

CliSpec == CliInit /\ [][CliNext]_vars

\* The hosts a command line asks main to check.
HostsAsked ==
    (IF args.local THEN {"local"} ELSE {}) \cup
    (IF args.remote THEN {"remote"} ELSE {})

\* The entries main has printed for host h.
EntriesFor(h) == { i \in 1..Len(printed) : printed[i].host = h }

\* C23: a run over several hosts ends with exactly one result entry per
\* host, whatever each host's outcome: the failure of one host does not keep
\* another host from being processed and recorded.  (Command lines that name
\* a remote host without its family are usage errors and are left out.)
C23_OneEntryPerHost ==
    /\ stage \in {"end", "exited"}
    /\ args.remote => args.device_type # << >>
    => \A h \in HostsAsked : Cardinality(EntriesFor(h)) = 1

(* ----------------------- one validator, two chains --------------------- *)

\* The raw outputs a paramiko chain or a subprocess chain has tested in the
\* current call.
TestedOutputs ==
    IF path \in {"paramiko", "subprocess"}
    THEN { ops[i].out : i \in { j \in 1..Len(ops) :
                                  ops[j].op = "command" /\ ops[j].kind = "output" } }
    ELSE {}

\* C31: the paramiko chain and the subprocess chain take the same acceptance
\* decision: every raw output one of them tests is accepted by the paramiko
\* test if and only if it is accepted by the subprocess test.
C31_ChainsAcceptSameOutputs ==
    \A out \in TestedOutputs : ParamikoAccepts(out) <=> SubprocessAccepts(out)

(* ------------------- early exits of the command line ------------------- *)

\* --remote was given without --device-type.
DeviceTypeMissing == args.remote /\ args.device_type = << >>

\* main has printed the failure of the local check.
LocalCheckFailed ==
    \E i \in 1..Len(printed) : printed[i] = Entry("local", FALSE)

\* main has asked for the credentials of the remote host.
RemoteCredentialsAsked ==
    \E i \in 1..Len(printed) : printed[i].host = "ssh_credentials"

\* Nothing of the remote check has happened: no checker call, no operation
\* against the host, no connection, no outcome printed.
RemoteCheckNotStarted ==
    /\ calls = 0
    /\ ops = << >>
    /\ connOpen = 0
    /\ EntriesFor("remote") = {}

\* main cannot end in any other way than sys.exit(1).
ExitsWithStatus1 ==
    /\ stage \notin {"list", "end"}
    /\ stage = "exited" => status = 1

\* C32 as stated: a remote check requested without a device type ends with
\* exit status 1 before any checker call, credential prompt or connection
\* for the remote host; and a failed local check ends the process with exit
\* status 1 before the remote check is started.
C32_EarlyExitBeforeRemoteWork ==
    /\ ( DeviceTypeMissing /\ stage # "credentials" )
       => ExitsWithStatus1 /\ RemoteCheckNotStarted /\ ~RemoteCredentialsAsked
    /\ LocalCheckFailed
       => stage = "exited" /\ status = 1 /\ RemoteCheckNotStarted

\* C32, amended: a remote check requested without a device type ends with
\* exit status 1 before any checker call or connection for the remote host,
\* and the credentials of the remote host have been asked for exactly when
\* --prompt-credentials was given; a failed local check ends the process
\* with exit status 1 before the remote check is started.
C32_EarlyExitAfterRequestedPrompt ==
    /\ ( DeviceTypeMissing /\ stage # "credentials" )
       => /\ ExitsWithStatus1
          /\ RemoteCheckNotStarted
          /\ (RemoteCredentialsAsked <=> args.prompt_credentials)
    /\ LocalCheckFailed
       => stage = "exited" /\ status = 1 /\ RemoteCheckNotStarted

\* main has exited with status 1 for the missing device type, after the
\* credentials were asked for and the local check succeeded.
C32_Witness ==
    /\ DeviceTypeMissing
    /\ args.prompt_credentials
    /\ args.local
    /\ stage = "exited"
    /\ status = 1
    /\ RemoteCredentialsAsked
    /\ ~LocalCheckFailed
    /\ EntriesFor("local") # {}

=============================================================================
